---- MODULE Spec2Model ----
(***************************************************************************)
(* Model of base::Thread (base/threading/thread.cc): one Thread object,    *)
(* the thread that drives its lifecycle ("ctl"), a second thread that only *)
(* queries it ("obs"), and the worker threads it spawns, one per           *)
(* successful StartWithOptions.  Every method is a sequence of steps; a    *)
(* step is one shared-memory access or one blocking call of the source.    *)
(***************************************************************************)
EXTENDS Integers, Sequences, FiniteSets, TLC

\* Bound: number of StartWithOptions calls made on the object.
MaxStarts == 2

\* A run is one StartWithOptions call; run r creates MessageLoop r and, when
\* the spawn succeeds, worker thread r.
Runs == 1..MaxStarts

\* Threads that call the public methods.
Callers == {"ctl", "obs"}

kInvalidThreadId == 0

NULL == 0

\* Constructor arguments of the two WaitableEvents (manual_reset flag).
IdEventManualReset == TRUE

StartEventManualReset == FALSE

LoopTypes == {"TYPE_DEFAULT", "TYPE_CUSTOM"}

\* PlatformThread::CurrentId() of a calling thread; worker r has id r.
CurrentId(t) == IF t = "ctl" THEN -1 ELSE -2

WorkerId(r) == r

Tids == {CurrentId(t) : t \in Callers} \cup {WorkerId(r) : r \in Runs}

\* The steps of ThreadMain, in program order; wpc[r] names the next one.
WSteps == <<"w_setid", "w_sigid", "w_bind", "w_init", "w_lockrunning",
            "w_running", "w_signal", "w_run", "w_locknotrunning",
            "w_notrunning", "w_cleanup", "w_assert", "w_null", "w_exit",
            "done">>

WPos(l) == IF l = "none" THEN 0 ELSE CHOOSE i \in 1..Len(WSteps) : WSteps[i] = l

VARIABLES
  dcheckOn,     \* build flavour: DCHECKs compiled in (debug) or out (NDEBUG)
  stopping,     \* stopping_
  running,      \* running_
  thread,       \* thread_ : handle of a worker, NULL when null
  id,           \* id_
  idEvent,      \* id_event_ signaled
  loop,         \* message_loop_ : a run's MessageLoop, or NULL
  startEvent,   \* start_event_ signaled
  threadLock,   \* thread_lock_ holder (a caller's id) or NULL
  nStarts,      \* StartWithOptions calls so far
  loopState,    \* per MessageLoop: none / unbound / bound / destroyed
  loopType,     \* per MessageLoop: its type
  queue,        \* per MessageLoop: posted tasks
  quitReq,      \* per MessageLoop: QuitWhenIdle has been called
  ctlLoop,      \* scoped_ptr<MessageLoop> local of StartWithOptions
  wLoop,        \* scoped_ptr<MessageLoop> local of each ThreadMain
  wpc,          \* per worker: next step of ThreadMain
  initDone,     \* per worker: Init() has returned
  cleanupDone,  \* per worker: CleanUp() has returned
  tls,          \* lazy_tls_bool, per thread id
  pc,           \* per caller: position inside the method it executes
  op,           \* per caller: the public method it called
  ret,          \* per caller: what its last completed call returned
  lastStart,    \* outcome of the most recent StartWithOptions
  destroyed,    \* ~Thread has returned
  err,          \* the DCHECK that aborted the process, or "none"
  wtask,        \* per worker: position inside the task its loop is running
  wcall,        \* per worker: the Thread method that task called
  posted,       \* tasks posted to the loops by code outside Thread
  stopAsked,    \* StopSoon/Stop/~Thread called since Start last returned true
  runningLock   \* running_lock_ holder (a thread id) or NULL

vars == <<dcheckOn, stopping, running, thread, id, idEvent, loop, startEvent,
          threadLock, nStarts, loopState, loopType, queue, quitReq, ctlLoop,
          wLoop, wpc, initDone, cleanupDone, tls, pc, op, ret, lastStart,
          destroyed, err, wtask, wcall, posted, stopAsked, runningLock>>

fieldVars == <<stopping, running, thread, id, idEvent, loop, startEvent, threadLock>>

loopVars == <<loopState, loopType, queue, quitReq>>

workerVars == <<wpc, wLoop, initDone, cleanupDone>>

taskVars == <<wtask, wcall, posted>>

NoRet == [op |-> "none", val |-> "none", tid |-> kInvalidThreadId]

\* Thread::Thread
Init ==
  /\ dcheckOn \in BOOLEAN
  /\ stopping = FALSE
  /\ running = FALSE
  /\ thread = NULL
  /\ id = kInvalidThreadId
  /\ idEvent = FALSE
  /\ loop = NULL
  /\ startEvent = FALSE
  /\ threadLock = NULL
  /\ nStarts = 0
  /\ loopState = [r \in Runs |-> "none"]
  /\ loopType = [r \in Runs |-> "TYPE_DEFAULT"]
  /\ queue = [r \in Runs |-> <<>>]
  /\ quitReq = [r \in Runs |-> FALSE]
  /\ ctlLoop = NULL
  /\ wLoop = [r \in Runs |-> NULL]
  /\ wpc = [r \in Runs |-> "none"]
  /\ initDone = [r \in Runs |-> FALSE]
  /\ cleanupDone = [r \in Runs |-> FALSE]
  /\ tls = [i \in Tids |-> FALSE]
  /\ pc = [t \in Callers |-> "idle"]
  /\ op = [t \in Callers |-> "none"]
  /\ ret = [t \in Callers |-> NoRet]
  /\ lastStart = "none"
  /\ destroyed = FALSE
  /\ err = "none"
  /\ wtask = [r \in Runs |-> "none"]
  /\ wcall = [r \in Runs |-> "none"]
  /\ posted = 0
  /\ stopAsked = FALSE
  /\ runningLock = NULL

\* The process is alive and the object exists.
Alive == err = "none" /\ ~destroyed

\* A caller enters public method o at label entry.
Enter(t, o, entry) ==
  /\ Alive
  /\ pc[t] = "idle"
  /\ pc' = [pc EXCEPT ![t] = entry]
  /\ op' = [op EXCEPT ![t] = o]
  /\ ret' = [ret EXCEPT ![t] = NoRet]

\* A caller returns from its public method with value v (and thread id i).
Return(t, v, i) ==
  /\ pc' = [pc EXCEPT ![t] = "idle"]
  /\ op' = [op EXCEPT ![t] = "none"]
  /\ ret' = [ret EXCEPT ![t] = [op |-> op[t], val |-> v, tid |-> i]]

Goto(t, l) ==
  /\ pc' = [pc EXCEPT ![t] = l]
  /\ UNCHANGED <<op, ret>>

\* WaitableEvent::Wait on a signaled event: an auto-reset event is consumed.
EventAfterWait(manualReset, e) == IF manualReset THEN e ELSE FALSE

-----------------------------------------------------------------------------
(* Thread::Start / Thread::StartWithOptions                                 *)

\* A caller may call StartWithOptions only when its checked precondition
\* DCHECK(!message_loop_) holds.
StartCall(t) ==
  /\ t = "ctl"
  /\ loop = NULL
  /\ nStarts < MaxStarts
  /\ Enter(t, "Start", "start_reset")
  /\ UNCHANGED <<dcheckOn, fieldVars, nStarts, loopVars, ctlLoop, workerVars,
                 tls, lastStart, destroyed, err>>
  /\ UNCHANGED taskVars
  /\ UNCHANGED stopAsked
  /\ UNCHANGED runningLock

StartReset(t) ==
  /\ err = "none"
  /\ pc[t] = "start_reset"
  /\ idEvent' = FALSE
  /\ id' = kInvalidThreadId
  /\ tls' = [tls EXCEPT ![CurrentId(t)] = FALSE]
  /\ Goto(t, "start_create")
  /\ UNCHANGED <<dcheckOn, stopping, running, thread, loop, startEvent,
                 threadLock, nStarts, loopVars, ctlLoop, workerVars,
                 lastStart, destroyed, err>>
  /\ UNCHANGED taskVars
  /\ UNCHANGED stopAsked
  /\ UNCHANGED runningLock

StartCreate(t) ==
  /\ err = "none"
  /\ pc[t] = "start_create"
  /\ \E ty \in LoopTypes :
       /\ nStarts' = nStarts + 1
       /\ loopState' = [loopState EXCEPT ![nStarts + 1] = "unbound"]
       /\ loopType' = [loopType EXCEPT ![nStarts + 1] = ty]
       /\ ctlLoop' = nStarts + 1
       /\ loop' = nStarts + 1
  /\ Goto(t, "start_resetev")
  /\ UNCHANGED <<dcheckOn, stopping, running, thread, id, idEvent, startEvent,
                 threadLock, queue, quitReq, workerVars, tls, lastStart,
                 destroyed, err>>
  /\ UNCHANGED taskVars
  /\ UNCHANGED stopAsked
  /\ UNCHANGED runningLock

\* StartWithOptions without start_event_.Reset().
StartResetEventOmitted(t) ==
  /\ err = "none"
  /\ pc[t] = "start_resetev"
  /\ Goto(t, "start_spawn")
  /\ UNCHANGED <<dcheckOn, fieldVars, nStarts, loopVars, ctlLoop, workerVars,
                 tls, lastStart, destroyed, err>>
  /\ UNCHANGED taskVars
  /\ UNCHANGED stopAsked
  /\ UNCHANGED runningLock

StartResetEvent(t) ==
  /\ err = "none"
  /\ pc[t] = "start_resetev"
  /\ startEvent' = FALSE
  /\ Goto(t, "start_spawn")
  /\ UNCHANGED <<dcheckOn, stopping, running, thread, id, idEvent, loop,
                 threadLock, nStarts, loopVars, ctlLoop, workerVars, tls,
                 lastStart, destroyed, err>>
  /\ UNCHANGED taskVars
  /\ UNCHANGED stopAsked
  /\ UNCHANGED runningLock

\* PlatformThread::CreateWithPriority succeeds: thread_ is set and the worker
\* exists; thread_lock_ is taken and released around the call.
StartSpawnOk(t) ==
  /\ err = "none"
  /\ pc[t] = "start_spawn"
  /\ threadLock = NULL
  /\ thread' = ctlLoop
  /\ wpc' = [wpc EXCEPT ![ctlLoop] = "w_setid"]
  /\ Goto(t, "start_release")
  /\ UNCHANGED <<dcheckOn, stopping, running, id, idEvent, loop, startEvent,
                 threadLock, nStarts, loopVars, ctlLoop, wLoop, initDone,
                 cleanupDone, tls, lastStart, destroyed, err>>
  /\ UNCHANGED taskVars
  /\ UNCHANGED stopAsked
  /\ UNCHANGED runningLock

\* PlatformThread::CreateWithPriority fails: message_loop_ is nulled, false
\* is returned and the scoped_ptr local destroys the MessageLoop.
StartSpawnFail(t) ==
  /\ err = "none"
  /\ pc[t] = "start_spawn"
  /\ threadLock = NULL
  /\ loop' = NULL
  /\ loopState' = [loopState EXCEPT ![ctlLoop] = "destroyed"]
  /\ ctlLoop' = NULL
  /\ lastStart' = "failed"
  /\ Return(t, "false", kInvalidThreadId)
  /\ UNCHANGED <<dcheckOn, stopping, running, thread, id, idEvent, startEvent,
                 threadLock, nStarts, loopType, queue, quitReq, workerVars,
                 tls, destroyed, err>>
  /\ UNCHANGED taskVars
  /\ UNCHANGED stopAsked
  /\ UNCHANGED runningLock

StartRelease(t) ==
  /\ err = "none"
  /\ pc[t] = "start_release"
  /\ ctlLoop' = NULL
  /\ IF dcheckOn /\ loop = NULL
       THEN /\ err' = "StartWithOptions: DCHECK(message_loop_)"
            /\ UNCHANGED <<pc, op, ret, lastStart>>
       ELSE /\ lastStart' = "ok"
            /\ Return(t, "true", kInvalidThreadId)
            /\ UNCHANGED err
  /\ UNCHANGED <<dcheckOn, fieldVars, nStarts, loopVars, workerVars, tls,
                 destroyed>>
  /\ UNCHANGED taskVars
  /\ stopAsked' = FALSE
  /\ UNCHANGED runningLock

-----------------------------------------------------------------------------
(* Thread::GetThreadId, also evaluated inside StopSoon's DCHECK_NE          *)

GetThreadIdCall(t) ==
  /\ Enter(t, "GetThreadId", "gti_wait")
  /\ UNCHANGED <<dcheckOn, fieldVars, nStarts, loopVars, ctlLoop, workerVars,
                 tls, lastStart, destroyed, err>>
  /\ UNCHANGED taskVars
  /\ UNCHANGED stopAsked
  /\ UNCHANGED runningLock

GetThreadIdWait(t) ==
  /\ err = "none"
  /\ pc[t] = "gti_wait"
  /\ idEvent
  /\ idEvent' = EventAfterWait(IdEventManualReset, idEvent)
  /\ Goto(t, "gti_read")
  /\ UNCHANGED <<dcheckOn, stopping, running, thread, id, loop, startEvent,
                 threadLock, nStarts, loopVars, ctlLoop, workerVars, tls,
                 lastStart, destroyed, err>>
  /\ UNCHANGED taskVars
  /\ UNCHANGED stopAsked
  /\ UNCHANGED runningLock

\* return id_;  inside StopSoon the value feeds DCHECK_NE(.., CurrentId()).
GetThreadIdRead(t) ==
  /\ err = "none"
  /\ pc[t] = "gti_read"
  /\ IF op[t] = "GetThreadId"
       THEN Return(t, "id", id) /\ UNCHANGED err
       ELSE IF id = CurrentId(t)
              THEN /\ err' = "StopSoon: DCHECK_NE(GetThreadId(), CurrentId())"
                   /\ UNCHANGED <<pc, op, ret>>
              ELSE Goto(t, "ss_test") /\ UNCHANGED err
  /\ UNCHANGED <<dcheckOn, fieldVars, nStarts, loopVars, ctlLoop, workerVars,
                 tls, lastStart, destroyed>>
  /\ UNCHANGED taskVars
  /\ UNCHANGED stopAsked
  /\ UNCHANGED runningLock

-----------------------------------------------------------------------------
(* Thread::StopSoon                                                         *)

StopSoonCall(t) ==
  /\ t = "ctl"
  /\ Enter(t, "StopSoon", "ss_dcheck")
  /\ UNCHANGED <<dcheckOn, fieldVars, nStarts, loopVars, ctlLoop, workerVars,
                 tls, lastStart, destroyed, err>>
  /\ UNCHANGED taskVars
  /\ stopAsked' = TRUE
  /\ UNCHANGED runningLock

\* DCHECK_NE(GetThreadId(), PlatformThread::CurrentId()): its operands are
\* evaluated only in a build with DCHECKs.
StopSoonDcheck(t) ==
  /\ err = "none"
  /\ pc[t] = "ss_dcheck"
  /\ Goto(t, IF dcheckOn THEN "gti_wait" ELSE "ss_test")
  /\ UNCHANGED <<dcheckOn, fieldVars, nStarts, loopVars, ctlLoop, workerVars,
                 tls, lastStart, destroyed, err>>
  /\ UNCHANGED taskVars
  /\ UNCHANGED stopAsked
  /\ UNCHANGED runningLock

\* if (stopping_ || !message_loop_) return;  stopping_ = true;  PostTask(quit)
StopSoonTest(t) ==
  /\ err = "none"
  /\ pc[t] = "ss_test"
  /\ IF stopping \/ loop = NULL
       THEN UNCHANGED <<stopping, queue>>
       ELSE /\ stopping' = TRUE
            /\ queue' = [queue EXCEPT ![loop] = Append(@, "quit")]
  /\ IF op[t] = "StopSoon"
       THEN Return(t, IF stopping \/ loop = NULL THEN "noop" ELSE "posted",
                   kInvalidThreadId)
       ELSE Goto(t, "stop_join")
  /\ UNCHANGED <<dcheckOn, running, thread, id, idEvent, loop, startEvent,
                 threadLock, nStarts, loopState, loopType, quitReq, ctlLoop,
                 workerVars, tls, lastStart, destroyed, err>>
  /\ UNCHANGED taskVars
  /\ UNCHANGED stopAsked
  /\ UNCHANGED runningLock

-----------------------------------------------------------------------------
(* Thread::Stop and Thread::~Thread                                         *)

StopCall(t) ==
  /\ t = "ctl"
  /\ Enter(t, "Stop", "stop_enter")
  /\ UNCHANGED <<dcheckOn, fieldVars, nStarts, loopVars, ctlLoop, workerVars,
                 tls, lastStart, destroyed, err>>
  /\ UNCHANGED taskVars
  /\ stopAsked' = TRUE
  /\ UNCHANGED runningLock

\* The destructor runs when no other thread is inside a method of the object.
DtorCall(t) ==
  /\ t = "ctl"
  /\ \A u \in Callers : pc[u] = "idle"
  /\ Enter(t, "Dtor", "stop_enter")
  /\ UNCHANGED <<dcheckOn, fieldVars, nStarts, loopVars, ctlLoop, workerVars,
                 tls, lastStart, destroyed, err>>
  /\ UNCHANGED taskVars
  /\ stopAsked' = TRUE
  /\ UNCHANGED runningLock

\* Stop returns to its caller; when that caller is ~Thread the object is gone.
StopReturn(t, v) ==
  /\ Return(t, v, kInvalidThreadId)
  /\ destroyed' = (op[t] = "Dtor")

\* Stop without the early return on a null thread_.
StopEnterNoNullCheck(t) ==
  /\ err = "none"
  /\ pc[t] = "stop_enter"
  /\ threadLock = NULL
  /\ threadLock' = CurrentId(t)
  /\ Goto(t, "ss_dcheck")
  /\ UNCHANGED <<dcheckOn, stopping, running, thread, id, idEvent, loop,
                 startEvent, nStarts, loopVars, ctlLoop, workerVars, tls,
                 lastStart, destroyed, err>>
  /\ UNCHANGED taskVars
  /\ UNCHANGED stopAsked
  /\ UNCHANGED runningLock

\* AutoLock lock(thread_lock_);  if (thread_.is_null()) return;  StopSoon();
StopEnter(t) ==
  /\ err = "none"
  /\ pc[t] = "stop_enter"
  /\ threadLock = NULL
  /\ IF thread = NULL
       THEN StopReturn(t, "noop") /\ UNCHANGED threadLock
       ELSE /\ threadLock' = CurrentId(t)
            /\ Goto(t, "ss_dcheck")
            /\ UNCHANGED destroyed
  /\ UNCHANGED <<dcheckOn, stopping, running, thread, id, idEvent, loop,
                 startEvent, nStarts, loopVars, ctlLoop, workerVars, tls,
                 lastStart, err>>
  /\ UNCHANGED taskVars
  /\ UNCHANGED stopAsked
  /\ UNCHANGED runningLock

\* Stop that forgets stopping_ = false.
StopJoinKeepStopping(t) ==
  /\ err = "none"
  /\ pc[t] = "stop_join"
  /\ thread \in Runs
  /\ wpc[thread] = "done"
  /\ thread' = NULL
  /\ threadLock' = NULL
  /\ StopReturn(t, "joined")
  /\ UNCHANGED <<dcheckOn, stopping, running, id, idEvent, loop, startEvent,
                 nStarts, loopVars, ctlLoop, workerVars, tls, lastStart, err>>
  /\ UNCHANGED taskVars
  /\ UNCHANGED stopAsked
  /\ UNCHANGED runningLock

\* Stop whose Join returns while the worker is still inside ThreadMain.
StopJoinNoWait(t) ==
  /\ err = "none"
  /\ pc[t] = "stop_join"
  /\ thread \in Runs
  /\ thread' = NULL
  /\ stopping' = FALSE
  /\ threadLock' = NULL
  /\ StopReturn(t, "joined")
  /\ UNCHANGED <<dcheckOn, running, id, idEvent, loop, startEvent, nStarts,
                 loopVars, ctlLoop, workerVars, tls, lastStart, err>>
  /\ UNCHANGED taskVars
  /\ UNCHANGED stopAsked
  /\ UNCHANGED runningLock

\* PlatformThread::Join(thread_) returns once that worker has returned from
\* ThreadMain; then thread_ is cleared, DCHECK(!message_loop_), stopping_
\* is reset and the lock is released.
StopJoin(t) ==
  /\ err = "none"
  /\ pc[t] = "stop_join"
  /\ thread \in Runs
  /\ wpc[thread] = "done"
  /\ thread' = NULL
  /\ IF dcheckOn /\ loop # NULL
       THEN /\ err' = "Stop: DCHECK(!message_loop_)"
            /\ UNCHANGED <<stopping, threadLock, pc, op, ret, destroyed>>
       ELSE /\ stopping' = FALSE
            /\ threadLock' = NULL
            /\ StopReturn(t, "joined")
            /\ UNCHANGED err
  /\ UNCHANGED <<dcheckOn, running, id, idEvent, loop, startEvent, nStarts,
                 loopVars, ctlLoop, workerVars, tls, lastStart>>
  /\ UNCHANGED taskVars
  /\ UNCHANGED stopAsked
  /\ UNCHANGED runningLock

-----------------------------------------------------------------------------
(* Thread::WaitUntilThreadStarted and Thread::IsRunning                     *)

WaitUntilThreadStartedCall(t) ==
  /\ Enter(t, "WaitUntilThreadStarted", "wus_check")
  /\ UNCHANGED <<dcheckOn, fieldVars, nStarts, loopVars, ctlLoop, workerVars,
                 tls, lastStart, destroyed, err>>
  /\ UNCHANGED taskVars
  /\ UNCHANGED stopAsked
  /\ UNCHANGED runningLock

\* WaitUntilThreadStarted without the early return on a null message_loop_.
WaitCheckAlwaysWait(t) ==
  /\ err = "none"
  /\ pc[t] = "wus_check"
  /\ Goto(t, "wus_wait")
  /\ UNCHANGED <<dcheckOn, fieldVars, nStarts, loopVars, ctlLoop, workerVars,
                 tls, lastStart, destroyed, err>>
  /\ UNCHANGED taskVars
  /\ UNCHANGED stopAsked
  /\ UNCHANGED runningLock

WaitCheck(t) ==
  /\ err = "none"
  /\ pc[t] = "wus_check"
  /\ IF loop = NULL
       THEN Return(t, "false", kInvalidThreadId)
       ELSE Goto(t, "wus_wait")
  /\ UNCHANGED <<dcheckOn, fieldVars, nStarts, loopVars, ctlLoop, workerVars,
                 tls, lastStart, destroyed, err>>
  /\ UNCHANGED taskVars
  /\ UNCHANGED stopAsked
  /\ UNCHANGED runningLock

WaitWait(t) ==
  /\ err = "none"
  /\ pc[t] = "wus_wait"
  /\ startEvent
  /\ startEvent' = EventAfterWait(StartEventManualReset, startEvent)
  /\ Return(t, "true", kInvalidThreadId)
  /\ UNCHANGED <<dcheckOn, stopping, running, thread, id, idEvent, loop,
                 threadLock, nStarts, loopVars, ctlLoop, workerVars, tls,
                 lastStart, destroyed, err>>
  /\ UNCHANGED taskVars
  /\ UNCHANGED stopAsked
  /\ UNCHANGED runningLock

\* The value IsRunning computes from the fields.
IsRunningValue == (loop # NULL /\ ~stopping) \/ running

IsRunningCall(t) ==
  /\ Enter(t, "IsRunning", "ir_fast")
  /\ UNCHANGED <<dcheckOn, fieldVars, nStarts, loopVars, ctlLoop, workerVars,
                 tls, lastStart, destroyed, err>>
  /\ UNCHANGED taskVars
  /\ UNCHANGED stopAsked
  /\ UNCHANGED runningLock

IsRunningFast(t) ==
  /\ err = "none"
  /\ pc[t] = "ir_fast"
  /\ IF loop # NULL /\ ~stopping
       THEN Return(t, "true", kInvalidThreadId)
       ELSE Goto(t, "ir_slow")
  /\ UNCHANGED <<dcheckOn, fieldVars, nStarts, loopVars, ctlLoop, workerVars,
                 tls, lastStart, destroyed, err>>
  /\ UNCHANGED taskVars
  /\ UNCHANGED stopAsked
  /\ UNCHANGED runningLock

\* AutoLock lock(running_lock_); return running_;
IsRunningSlow(t) ==
  /\ err = "none"
  /\ pc[t] = "ir_slow"
  /\ runningLock = NULL
  /\ Return(t, IF running THEN "true" ELSE "false", kInvalidThreadId)
  /\ UNCHANGED <<dcheckOn, fieldVars, nStarts, loopVars, ctlLoop, workerVars,
                 tls, lastStart, destroyed, err>>
  /\ UNCHANGED taskVars
  /\ UNCHANGED stopAsked
  /\ UNCHANGED runningLock

-----------------------------------------------------------------------------
(* Thread::ThreadMain, run by worker r                                      *)

WGoto(r, l) == wpc' = [wpc EXCEPT ![r] = l]

\* id_ = PlatformThread::CurrentId();
WSetId(r) ==
  /\ err = "none"
  /\ wpc[r] = "w_setid"
  /\ id' = WorkerId(r)
  /\ WGoto(r, "w_sigid")
  /\ UNCHANGED <<dcheckOn, stopping, running, thread, idEvent, loop,
                 startEvent, threadLock, nStarts, loopVars, ctlLoop, wLoop,
                 initDone, cleanupDone, tls, pc, op, ret, lastStart,
                 destroyed, err>>
  /\ UNCHANGED taskVars
  /\ UNCHANGED stopAsked
  /\ UNCHANGED runningLock

\* id_event_.Signal();
WSignalId(r) ==
  /\ err = "none"
  /\ wpc[r] = "w_sigid"
  /\ idEvent' = TRUE
  /\ WGoto(r, "w_bind")
  /\ UNCHANGED <<dcheckOn, stopping, running, thread, id, loop, startEvent,
                 threadLock, nStarts, loopVars, ctlLoop, wLoop, initDone,
                 cleanupDone, tls, pc, op, ret, lastStart, destroyed, err>>
  /\ UNCHANGED taskVars
  /\ UNCHANGED stopAsked
  /\ UNCHANGED runningLock

\* ThreadMain that gives up before Init() when a stop was already requested.
WBindCancelIfStopping(r) ==
  /\ err = "none"
  /\ wpc[r] = "w_bind"
  /\ loop # NULL
  /\ wLoop' = [wLoop EXCEPT ![r] = loop]
  /\ loopState' = [loopState EXCEPT ![loop] = "bound"]
  /\ WGoto(r, IF stopping THEN "w_null" ELSE "w_init")
  /\ UNCHANGED <<dcheckOn, fieldVars, nStarts, loopType, queue, quitReq,
                 ctlLoop, initDone, cleanupDone, tls, pc, op, ret, lastStart,
                 destroyed, err, taskVars, stopAsked, runningLock>>

\* DCHECK(message_loop_); the scoped_ptr local takes the MessageLoop that
\* message_loop_ points to, and BindToCurrentThread binds it.
WBind(r) ==
  /\ err = "none"
  /\ wpc[r] = "w_bind"
  /\ IF loop = NULL
       THEN /\ err' = "ThreadMain: DCHECK(message_loop_)"
            /\ UNCHANGED <<wLoop, loopState, wpc>>
       ELSE /\ wLoop' = [wLoop EXCEPT ![r] = loop]
            /\ loopState' = [loopState EXCEPT ![loop] = "bound"]
            /\ WGoto(r, "w_init")
            /\ UNCHANGED err
  /\ UNCHANGED <<dcheckOn, fieldVars, nStarts, loopType, queue, quitReq,
                 ctlLoop, initDone, cleanupDone, tls, pc, op, ret, lastStart,
                 destroyed>>
  /\ UNCHANGED taskVars
  /\ UNCHANGED stopAsked
  /\ UNCHANGED runningLock

\* Init();
WInit(r) ==
  /\ err = "none"
  /\ wpc[r] = "w_init"
  /\ initDone' = [initDone EXCEPT ![r] = TRUE]
  /\ WGoto(r, "w_lockrunning")
  /\ UNCHANGED <<dcheckOn, fieldVars, nStarts, loopVars, ctlLoop, wLoop,
                 cleanupDone, tls, pc, op, ret, lastStart, destroyed, err>>
  /\ UNCHANGED taskVars
  /\ UNCHANGED stopAsked
  /\ UNCHANGED runningLock

\* AutoLock lock(running_lock_);  before running_ = true
WLockRunning(r) ==
  /\ err = "none"
  /\ wpc[r] = "w_lockrunning"
  /\ runningLock = NULL
  /\ runningLock' = WorkerId(r)
  /\ WGoto(r, "w_running")
  /\ UNCHANGED <<dcheckOn, fieldVars, nStarts, loopVars, ctlLoop, wLoop,
                 initDone, cleanupDone, tls, pc, op, ret, lastStart,
                 destroyed, err, taskVars, stopAsked>>

\* running_ = true; and the lock's scope ends.
WSetRunning(r) ==
  /\ err = "none"
  /\ wpc[r] = "w_running"
  /\ runningLock = WorkerId(r)
  /\ running' = TRUE
  /\ WGoto(r, "w_signal")
  /\ UNCHANGED <<dcheckOn, stopping, thread, id, idEvent, loop, startEvent,
                 threadLock, nStarts, loopVars, ctlLoop, wLoop, initDone,
                 cleanupDone, tls, pc, op, ret, lastStart, destroyed, err>>
  /\ UNCHANGED taskVars
  /\ UNCHANGED stopAsked
  /\ runningLock' = NULL

\* start_event_.Signal();
WSignalStart(r) ==
  /\ err = "none"
  /\ wpc[r] = "w_signal"
  /\ startEvent' = TRUE
  /\ WGoto(r, "w_run")
  /\ UNCHANGED <<dcheckOn, stopping, running, thread, id, idEvent, loop,
                 threadLock, nStarts, loopVars, ctlLoop, wLoop, initDone,
                 cleanupDone, tls, pc, op, ret, lastStart, destroyed, err>>
  /\ UNCHANGED taskVars
  /\ UNCHANGED stopAsked
  /\ UNCHANGED runningLock

\* Run(message_loop_): the loop runs its next task, here the task StopSoon
\* posted, ThreadQuitHelper: QuitWhenIdle() and SetThreadWasQuitProperly(true).
WRunTask(r) ==
  /\ err = "none"
  /\ wpc[r] = "w_run"
  /\ wtask[r] = "none"
  /\ queue[wLoop[r]] # <<>>
  /\ Head(queue[wLoop[r]]) = "quit"
  /\ queue' = [queue EXCEPT ![wLoop[r]] = Tail(@)]
  /\ quitReq' = [quitReq EXCEPT ![wLoop[r]] = TRUE]
  /\ tls' = [tls EXCEPT ![WorkerId(r)] = TRUE]
  /\ UNCHANGED <<dcheckOn, fieldVars, nStarts, loopState, loopType, ctlLoop,
                 workerVars, pc, op, ret, lastStart, destroyed, err>>
  /\ UNCHANGED taskVars
  /\ UNCHANGED stopAsked
  /\ UNCHANGED runningLock

\* Run that returns as soon as the loop is idle, quit or not.
WRunExitWithoutQuit(r) ==
  /\ err = "none"
  /\ wpc[r] = "w_run"
  /\ wtask[r] = "none"
  /\ queue[wLoop[r]] = <<>>
  /\ WGoto(r, "w_locknotrunning")
  /\ UNCHANGED <<dcheckOn, fieldVars, nStarts, loopVars, ctlLoop, wLoop,
                 initDone, cleanupDone, tls, pc, op, ret, lastStart,
                 destroyed, err, taskVars, stopAsked, runningLock>>

\* Run returns: the loop is idle and has been told to quit.
WRunExit(r) ==
  /\ err = "none"
  /\ wpc[r] = "w_run"
  /\ wtask[r] = "none"
  /\ queue[wLoop[r]] = <<>>
  /\ quitReq[wLoop[r]]
  /\ WGoto(r, "w_locknotrunning")
  /\ UNCHANGED <<dcheckOn, fieldVars, nStarts, loopVars, ctlLoop, wLoop,
                 initDone, cleanupDone, tls, pc, op, ret, lastStart,
                 destroyed, err>>
  /\ UNCHANGED taskVars
  /\ UNCHANGED stopAsked
  /\ UNCHANGED runningLock

\* AutoLock lock(running_lock_);  before running_ = false
WLockNotRunning(r) ==
  /\ err = "none"
  /\ wpc[r] = "w_locknotrunning"
  /\ runningLock = NULL
  /\ runningLock' = WorkerId(r)
  /\ WGoto(r, "w_notrunning")
  /\ UNCHANGED <<dcheckOn, fieldVars, nStarts, loopVars, ctlLoop, wLoop,
                 initDone, cleanupDone, tls, pc, op, ret, lastStart,
                 destroyed, err, taskVars, stopAsked>>

\* ThreadMain that releases the lock without clearing running_.
WClearRunningOmitted(r) ==
  /\ err = "none"
  /\ wpc[r] = "w_notrunning"
  /\ runningLock = WorkerId(r)
  /\ runningLock' = NULL
  /\ WGoto(r, "w_cleanup")
  /\ UNCHANGED <<dcheckOn, fieldVars, nStarts, loopVars, ctlLoop, wLoop,
                 initDone, cleanupDone, tls, pc, op, ret, lastStart,
                 destroyed, err, taskVars, stopAsked>>

\* running_ = false; and the lock's scope ends.
WClearRunning(r) ==
  /\ err = "none"
  /\ wpc[r] = "w_notrunning"
  /\ runningLock = WorkerId(r)
  /\ running' = FALSE
  /\ WGoto(r, "w_cleanup")
  /\ UNCHANGED <<dcheckOn, stopping, thread, id, idEvent, loop, startEvent,
                 threadLock, nStarts, loopVars, ctlLoop, wLoop, initDone,
                 cleanupDone, tls, pc, op, ret, lastStart, destroyed, err>>
  /\ UNCHANGED taskVars
  /\ UNCHANGED stopAsked
  /\ runningLock' = NULL

\* CleanUp();
WCleanUp(r) ==
  /\ err = "none"
  /\ wpc[r] = "w_cleanup"
  /\ cleanupDone' = [cleanupDone EXCEPT ![r] = TRUE]
  /\ WGoto(r, "w_assert")
  /\ UNCHANGED <<dcheckOn, fieldVars, nStarts, loopVars, ctlLoop, wLoop,
                 initDone, tls, pc, op, ret, lastStart, destroyed, err>>
  /\ UNCHANGED taskVars
  /\ UNCHANGED stopAsked
  /\ UNCHANGED runningLock

\* if (type != TYPE_CUSTOM) DCHECK(GetThreadWasQuitProperly());
WAssert(r) ==
  /\ err = "none"
  /\ wpc[r] = "w_assert"
  /\ IF loopType[wLoop[r]] # "TYPE_CUSTOM" /\ dcheckOn /\ ~tls[WorkerId(r)]
       THEN /\ err' = "ThreadMain: DCHECK(GetThreadWasQuitProperly())"
            /\ UNCHANGED wpc
       ELSE /\ WGoto(r, "w_null")
            /\ UNCHANGED err
  /\ UNCHANGED <<dcheckOn, fieldVars, nStarts, loopVars, ctlLoop, wLoop,
                 initDone, cleanupDone, tls, pc, op, ret, lastStart,
                 destroyed>>
  /\ UNCHANGED taskVars
  /\ UNCHANGED stopAsked
  /\ UNCHANGED runningLock

\* ThreadMain that leaves message_loop_ set on exit.
WNullOmitted(r) ==
  /\ err = "none"
  /\ wpc[r] = "w_null"
  /\ WGoto(r, "w_exit")
  /\ UNCHANGED <<dcheckOn, fieldVars, nStarts, loopVars, ctlLoop, wLoop,
                 initDone, cleanupDone, tls, pc, op, ret, lastStart,
                 destroyed, err, taskVars, stopAsked, runningLock>>

\* message_loop_ = nullptr;
WNull(r) ==
  /\ err = "none"
  /\ wpc[r] = "w_null"
  /\ loop' = NULL
  /\ WGoto(r, "w_exit")
  /\ UNCHANGED <<dcheckOn, stopping, running, thread, id, idEvent,
                 startEvent, threadLock, nStarts, loopVars, ctlLoop, wLoop,
                 initDone, cleanupDone, tls, pc, op, ret, lastStart,
                 destroyed, err>>
  /\ UNCHANGED taskVars
  /\ UNCHANGED stopAsked
  /\ UNCHANGED runningLock

\* The closing brace: the scoped_ptr local destroys the MessageLoop and
\* ThreadMain returns.
WExit(r) ==
  /\ err = "none"
  /\ wpc[r] = "w_exit"
  /\ loopState' = [loopState EXCEPT ![wLoop[r]] = "destroyed"]
  /\ wLoop' = [wLoop EXCEPT ![r] = NULL]
  /\ WGoto(r, "done")
  /\ UNCHANGED <<dcheckOn, fieldVars, nStarts, loopType, queue, quitReq,
                 ctlLoop, initDone, cleanupDone, tls, pc, op, ret, lastStart,
                 destroyed, err>>
  /\ UNCHANGED taskVars
  /\ UNCHANGED stopAsked
  /\ UNCHANGED runningLock

-----------------------------------------------------------------------------

\* A caller enters a public method.
CallStep(t) ==
  \/ StartCall(t)
  \/ StopSoonCall(t)
  \/ StopCall(t)
  \/ DtorCall(t)
  \/ WaitUntilThreadStartedCall(t)
  \/ GetThreadIdCall(t)
  \/ IsRunningCall(t)

\* A caller takes the next step of the method it is in.
BodyStep(t) ==
  \/ StartReset(t)
  \/ StartCreate(t)
  \/ StartResetEvent(t)
  \/ StartSpawnOk(t)
  \/ StartSpawnFail(t)
  \/ StartRelease(t)
  \/ GetThreadIdWait(t)
  \/ GetThreadIdRead(t)
  \/ StopSoonDcheck(t)
  \/ StopSoonTest(t)
  \/ StopEnter(t)
  \/ StopJoin(t)
  \/ WaitCheck(t)
  \/ WaitWait(t)
  \/ IsRunningFast(t)
  \/ IsRunningSlow(t)

WorkerStep(r) ==
  \/ WSetId(r)
  \/ WSignalId(r)
  \/ WBind(r)
  \/ WInit(r)
  \/ WLockRunning(r)
  \/ WSetRunning(r)
  \/ WSignalStart(r)
  \/ WRunTask(r)
  \/ WRunExit(r)
  \/ WLockNotRunning(r)
  \/ WClearRunning(r)
  \/ WCleanUp(r)
  \/ WAssert(r)
  \/ WNull(r)
  \/ WExit(r)

Next ==
  \/ \E t \in Callers : CallStep(t)
  \/ \E t \in Callers : BodyStep(t)
  \/ \E r \in Runs : WorkerStep(r)

Spec == Init /\ [][Next]_vars

-----------------------------------------------------------------------------
(* Tasks that code outside Thread posts to the worker's MessageLoop, and    *)
(* the Thread methods those tasks call on the worker thread.                *)

\* Bound: number of such tasks posted.
MaxPosts == 1

\* "stopsoon" calls StopSoon() and "stop" calls Stop() on the Thread that owns
\* the loop; "startother" calls Start() on another Thread object.
UserTasks == {"stopsoon", "stop", "startother"}

\* The controller thread, between two calls, posts task k to the loop.
PostUserTask(k) ==
  /\ Alive
  /\ pc["ctl"] = "idle"
  /\ loop # NULL
  /\ posted < MaxPosts
  /\ posted' = posted + 1
  /\ queue' = [queue EXCEPT ![loop] = Append(@, k)]
  /\ UNCHANGED <<dcheckOn, fieldVars, nStarts, loopState, loopType, quitReq,
                 ctlLoop, workerVars, tls, pc, op, ret, lastStart, destroyed,
                 err, wtask, wcall, stopAsked>>
  /\ UNCHANGED runningLock

WTaskGoto(r, l) == wtask' = [wtask EXCEPT ![r] = l]

\* The task running on worker r returns to the loop.
WTaskDone(r) ==
  /\ wtask' = [wtask EXCEPT ![r] = "none"]
  /\ wcall' = [wcall EXCEPT ![r] = "none"]

\* The loop of worker r runs a task that calls Stop() or StopSoon().
WTaskCall(r) ==
  /\ err = "none"
  /\ wpc[r] = "w_run"
  /\ wtask[r] = "none"
  /\ queue[wLoop[r]] # <<>>
  /\ Head(queue[wLoop[r]]) \in {"stopsoon", "stop"}
  /\ queue' = [queue EXCEPT ![wLoop[r]] = Tail(@)]
  /\ IF Head(queue[wLoop[r]]) = "stop"
       THEN /\ wcall' = [wcall EXCEPT ![r] = "Stop"]
            /\ WTaskGoto(r, "stop_enter")
       ELSE /\ wcall' = [wcall EXCEPT ![r] = "StopSoon"]
            /\ WTaskGoto(r, "ss_dcheck")
  /\ UNCHANGED <<dcheckOn, fieldVars, nStarts, loopState, loopType, quitReq,
                 ctlLoop, workerVars, tls, pc, op, ret, lastStart, destroyed,
                 err, posted, stopAsked>>
  /\ UNCHANGED runningLock

\* The loop of worker r runs a task that calls Start() on another Thread:
\* that StartWithOptions executes SetThreadWasQuitProperly(false) on the
\* calling thread, which is worker r.
WTaskStartOther(r) ==
  /\ err = "none"
  /\ wpc[r] = "w_run"
  /\ wtask[r] = "none"
  /\ queue[wLoop[r]] # <<>>
  /\ Head(queue[wLoop[r]]) = "startother"
  /\ queue' = [queue EXCEPT ![wLoop[r]] = Tail(@)]
  /\ tls' = [tls EXCEPT ![WorkerId(r)] = FALSE]
  /\ UNCHANGED <<dcheckOn, fieldVars, nStarts, loopState, loopType, quitReq,
                 ctlLoop, workerVars, pc, op, ret, lastStart, destroyed, err,
                 taskVars, stopAsked>>
  /\ UNCHANGED runningLock

\* Stop on worker r: AutoLock lock(thread_lock_); if (thread_.is_null())
\* return; StopSoon();
WStopEnter(r) ==
  /\ err = "none"
  /\ wtask[r] = "stop_enter"
  /\ threadLock = NULL
  /\ IF thread = NULL
       THEN WTaskDone(r) /\ UNCHANGED threadLock
       ELSE /\ threadLock' = WorkerId(r)
            /\ WTaskGoto(r, "ss_dcheck")
            /\ UNCHANGED wcall
  /\ UNCHANGED <<dcheckOn, stopping, running, thread, id, idEvent, loop,
                 startEvent, nStarts, loopVars, ctlLoop, workerVars, tls, pc,
                 op, ret, lastStart, destroyed, err, posted, stopAsked>>
  /\ UNCHANGED runningLock

\* StopSoon on worker r: the operands of DCHECK_NE are evaluated only in a
\* build with DCHECKs.
WStopSoonDcheck(r) ==
  /\ err = "none"
  /\ wtask[r] = "ss_dcheck"
  /\ WTaskGoto(r, IF dcheckOn THEN "gti_wait" ELSE "ss_test")
  /\ UNCHANGED <<dcheckOn, fieldVars, nStarts, loopVars, ctlLoop, workerVars,
                 tls, pc, op, ret, lastStart, destroyed, err, wcall, posted,
                 stopAsked>>
  /\ UNCHANGED runningLock

\* GetThreadId on worker r: id_event_.Wait();
WGetThreadIdWait(r) ==
  /\ err = "none"
  /\ wtask[r] = "gti_wait"
  /\ idEvent
  /\ idEvent' = EventAfterWait(IdEventManualReset, idEvent)
  /\ WTaskGoto(r, "gti_read")
  /\ UNCHANGED <<dcheckOn, stopping, running, thread, id, loop, startEvent,
                 threadLock, nStarts, loopVars, ctlLoop, workerVars, tls, pc,
                 op, ret, lastStart, destroyed, err, wcall, posted, stopAsked>>
  /\ UNCHANGED runningLock

\* DCHECK_NE compares the wrong value: it never fires on the worker.
WGetThreadIdReadWrongOperand(r) ==
  /\ err = "none"
  /\ wtask[r] = "gti_read"
  /\ IF id = kInvalidThreadId
       THEN /\ err' = "StopSoon: DCHECK_NE(GetThreadId(), CurrentId())"
            /\ UNCHANGED wtask
       ELSE WTaskGoto(r, "ss_test") /\ UNCHANGED err
  /\ UNCHANGED <<dcheckOn, fieldVars, nStarts, loopVars, ctlLoop, workerVars,
                 tls, pc, op, ret, lastStart, destroyed, wcall, posted,
                 stopAsked>>
  /\ UNCHANGED runningLock

\* GetThreadId on worker r: return id_; then DCHECK_NE(.., CurrentId()).
WGetThreadIdRead(r) ==
  /\ err = "none"
  /\ wtask[r] = "gti_read"
  /\ IF id = WorkerId(r)
       THEN /\ err' = "StopSoon: DCHECK_NE(GetThreadId(), CurrentId())"
            /\ UNCHANGED wtask
       ELSE WTaskGoto(r, "ss_test") /\ UNCHANGED err
  /\ UNCHANGED <<dcheckOn, fieldVars, nStarts, loopVars, ctlLoop, workerVars,
                 tls, pc, op, ret, lastStart, destroyed, wcall, posted,
                 stopAsked>>
  /\ UNCHANGED runningLock

\* StopSoon on worker r: if (stopping_ || !message_loop_) return;
\* stopping_ = true; PostTask(quit).  When Stop called it, Stop goes on to
\* PlatformThread::Join(thread_) on the worker's own handle, which never
\* returns: the worker stays at "stop_join".
WStopSoonTest(r) ==
  /\ err = "none"
  /\ wtask[r] = "ss_test"
  /\ IF stopping \/ loop = NULL
       THEN UNCHANGED <<stopping, queue>>
       ELSE /\ stopping' = TRUE
            /\ queue' = [queue EXCEPT ![loop] = Append(@, "quit")]
  /\ IF wcall[r] = "StopSoon"
       THEN WTaskDone(r)
       ELSE WTaskGoto(r, "stop_join") /\ UNCHANGED wcall
  /\ UNCHANGED <<dcheckOn, running, thread, id, idEvent, loop, startEvent,
                 threadLock, nStarts, loopState, loopType, quitReq, ctlLoop,
                 workerVars, tls, pc, op, ret, lastStart, destroyed, err,
                 posted, stopAsked>>
  /\ UNCHANGED runningLock

TaskStep(r) ==
  \/ WTaskCall(r)
  \/ WTaskStartOther(r)
  \/ WStopEnter(r)
  \/ WStopSoonDcheck(r)
  \/ WGetThreadIdWait(r)
  \/ WGetThreadIdRead(r)
  \/ WStopSoonTest(r)

\* The controller thread, the workers, and tasks posted to the workers' loops.
TaskNext ==
  \/ CallStep("ctl")
  \/ BodyStep("ctl")
  \/ \E r \in Runs : WorkerStep(r)
  \/ \E k \in UserTasks : PostUserTask(k)
  \/ \E r \in Runs : TaskStep(r)

TaskSpec == Init /\ [][TaskNext]_vars

-----------------------------------------------------------------------------
(* A second thread that calls StopSoon, against the comment at line 168     *)
(* ("We should only be called on the same thread that started us").         *)

OtherThreadStopSoonCall ==
  /\ Enter("obs", "StopSoon", "ss_dcheck")
  /\ UNCHANGED <<dcheckOn, fieldVars, nStarts, loopVars, ctlLoop, workerVars,
                 tls, lastStart, destroyed, err, taskVars, stopAsked,
                 runningLock>>

RaceNext ==
  \/ Next
  \/ OtherThreadStopSoonCall

RaceSpec == Init /\ [][RaceNext]_vars

\* The scheduler is fair to every thread: a worker that can take a step
\* eventually does, and so does a caller that is inside a method.
FairSpec ==
  /\ Spec
  /\ \A r \in Runs : WF_vars(WorkerStep(r))
  /\ \A t \in Callers : WF_vars(BodyStep(t))

TypeOK ==
  /\ dcheckOn \in BOOLEAN
  /\ stopping \in BOOLEAN /\ running \in BOOLEAN
  /\ thread \in Runs \cup {NULL} /\ loop \in Runs \cup {NULL}
  /\ id \in {WorkerId(r) : r \in Runs} \cup {kInvalidThreadId}
  /\ nStarts \in 0..MaxStarts
  /\ \A r \in Runs : wpc[r] = "none" \/ WPos(wpc[r]) \in 1..Len(WSteps)

-----------------------------------------------------------------------------
(* Properties                                                               *)

\* Workers that have been spawned and have not returned from ThreadMain.
LiveWorkers == {r \in Runs : wpc[r] \notin {"none", "done"}}

Returned(t, o, v) == ret[t].op = o /\ ret[t].val = v

\* The worker of the latest run has bound the MessageLoop, its Init() has
\* returned, running_ has been set and start_event_ signaled.
LatestRunInitialized ==
  /\ nStarts \in Runs
  /\ initDone[nStarts]
  /\ loopState[nStarts] \in {"bound", "destroyed"}
  /\ WPos(wpc[nStarts]) > WPos("w_signal")

\* C1: in no state has WaitUntilThreadStarted returned true to the
\* controller thread while the worker of the run it started has not yet
\* bound the MessageLoop, finished Init() and set running_; and a call on
\* any thread returns true only after that, unless it races with the
\* controller between lines 107 and 108 of a restart.
WaitTrueOnlyAfterInit ==
  /\ [](Returned("ctl", "WaitUntilThreadStarted", "true")
          => (lastStart = "ok" /\ LatestRunInitialized))
  /\ [][\A t \in Callers :
          (pc[t] = "wus_wait" /\ pc'[t] = "idle" /\ pc["ctl"] # "start_resetev")
             => LatestRunInitialized]_vars

\* C1 witness: the wait returned true on a restarted thread whose worker is
\* inside its run loop.
WaitTrueWitness ==
  /\ Returned("ctl", "WaitUntilThreadStarted", "true")
  /\ nStarts = 2
  /\ wpc[nStarts] = "w_run"

\* C2: no GetThreadId call, on any thread, returns kInvalidThreadId.
GetThreadIdNeverInvalid ==
  \A t \in Callers : ret[t].op = "GetThreadId" => ret[t].tid # kInvalidThreadId

\* C3: under fair scheduling a Stop() called by the controller thread after
\* a successful most recent Start eventually returns.
StopEventuallyReturns ==
  (op["ctl"] = "Stop" /\ lastStart = "ok") ~> (ret["ctl"].op = "Stop")

\* C4: when a Stop() that found a live thread_ has returned, message_loop_
\* and thread_ are null, stopping_ and running_ are false, no DCHECK has
\* failed, IsRunning() is false and StartWithOptions' precondition holds.
StopReturnsToNotStarted ==
  Returned("ctl", "Stop", "joined") =>
    /\ loop = NULL
    /\ thread = NULL
    /\ ~stopping
    /\ ~running
    /\ ~IsRunningValue
    /\ err = "none"

\* C4 witness: a Stop() that joined a worker has returned.
StopJoinedWitness ==
  /\ Returned("ctl", "Stop", "joined")
  /\ wpc[1] = "done"

\* C5: at most one spawned worker has not yet returned from ThreadMain.
AtMostOneWorker == Cardinality(LiveWorkers) <= 1

\* C6: once ~Thread has returned, every worker the object ever spawned has
\* returned from ThreadMain.
NoWorkerOutlivesController == destroyed => LiveWorkers = {}

\* C6 witness: the destructor found a live thread_ (started, not stopped
\* since), joined it and returned.
DtorJoinedWitness ==
  /\ destroyed
  /\ Returned("ctl", "Dtor", "joined")
  /\ \E r \in Runs : wpc[r] = "done"

\* C7: when StartWithOptions has returned false, no worker exists, the
\* MessageLoop of the attempt is destroyed and no longer held, and
\* message_loop_ and thread_ are null and stopping_ and running_ false.
FailedStartLeavesNotStarted ==
  Returned("ctl", "Start", "false") =>
    /\ LiveWorkers = {}
    /\ ctlLoop = NULL
    /\ loopState[nStarts] = "destroyed"
    /\ loop = NULL
    /\ thread = NULL
    /\ ~stopping
    /\ ~running

\* C8: a StopSoon() called when stopping_ is set or message_loop_ is null
\* never waits, and changes none of stopping_, message_loop_ and the queues.
StopSoonNoopNeverWaits ==
  /\ [](\A t \in Callers :
          (op[t] = "StopSoon" /\ pc[t] = "gti_wait" /\ (stopping \/ loop = NULL))
             => idEvent)
  /\ [][\A t \in Callers :
          (op[t] = "StopSoon" /\ pc[t] = "ss_test" /\ pc'[t] # "ss_test"
             /\ (stopping \/ loop = NULL))
             => UNCHANGED <<stopping, loop, queue>>]_vars

\* C9: Stop() called by the controller thread when thread_ is null (never
\* started) does not wait for the lock, and its one step returns leaving
\* every field, both events and the queues unchanged.
StopNeverStartedIsNoop ==
  /\ []((op["ctl"] = "Stop" /\ pc["ctl"] = "stop_enter" /\ thread = NULL)
          => threadLock = NULL)
  /\ [][(op["ctl"] = "Stop" /\ pc["ctl"] = "stop_enter" /\ thread = NULL
           /\ pc'["ctl"] # "stop_enter")
          => /\ pc'["ctl"] = "idle"
             /\ ret'["ctl"].val = "noop"
             /\ UNCHANGED <<fieldVars, queue, quitReq, wpc, destroyed>>]_vars

\* C9 witness: Stop() has returned on an object that was never started.
StopNoopWitness ==
  /\ Returned("ctl", "Stop", "noop")
  /\ nStarts = 0

\* C10: once signaled, start_event_ stays signaled until the next
\* StartWithOptions resets it.
StartEventStaysSignaled ==
  [][(startEvent /\ pc["ctl"] # "start_resetev") => startEvent']_vars

\* C11: WaitUntilThreadStarted returns false only when no StartWithOptions
\* has ever spawned a worker.
WaitFalseOnlyIfNeverStarted ==
  Returned("ctl", "WaitUntilThreadStarted", "false") =>
    \A r \in Runs : wpc[r] = "none"

\* C11 amended: WaitUntilThreadStarted returns false, at once and without
\* touching start_event_, exactly when message_loop_ is null at its test;
\* otherwise it waits on start_event_, and it returns true only from that
\* wait, on the controller thread only after the worker's initialization.
WaitFalseIffLoopNull ==
  /\ [][\A t \in Callers :
          (pc[t] = "wus_check" /\ pc'[t] # "wus_check")
             => IF loop = NULL
                  THEN /\ pc'[t] = "idle"
                       /\ ret'[t].val = "false"
                       /\ UNCHANGED startEvent
                  ELSE pc'[t] = "wus_wait"]_vars
  /\ [][\A t \in Callers :
          (op[t] = "WaitUntilThreadStarted" /\ ret'[t].val = "true")
             => (pc[t] = "wus_wait" /\ startEvent)]_vars
  /\ [][(op["ctl"] = "WaitUntilThreadStarted" /\ ret'["ctl"].val = "true")
          => LatestRunInitialized]_vars

\* C11 witness: the call returned false although a worker had been started.
WaitFalseAfterStartWitness ==
  /\ Returned("ctl", "WaitUntilThreadStarted", "false")
  /\ wpc[1] = "done"

\* C12: StopSoon() running on the worker thread itself, called directly or
\* by Stop(), never gets past its DCHECK_NE to the test of stopping_, and
\* the worker never reaches Join on its own handle.
SelfStopDetectedBeforeEffect ==
  \A r \in Runs : wtask[r] \notin {"ss_test", "stop_join"}

\* C12 amended: in a build with DCHECKs the same holds, the DCHECK_NE is
\* fatal, and no step of the worker's call changes stopping_ or posts a task.
SelfStopFatalWithDchecks ==
  /\ [](dcheckOn => SelfStopDetectedBeforeEffect)
  /\ [][\A r \in Runs :
          (dcheckOn /\ wtask[r] = "gti_read" /\ wtask'[r] = "gti_read")
             => (err' = err \/ err' = "StopSoon: DCHECK_NE(GetThreadId(), CurrentId())")]_vars
  /\ [][\A r \in Runs :
          (dcheckOn /\ wtask[r] # "none" /\ (wtask'[r] # wtask[r] \/ err' # err))
             => UNCHANGED <<stopping, queue>>]_vars

\* C12 witness: the DCHECK_NE of a StopSoon that Stop() called on the worker
\* thread has aborted the process.
SelfStopFatalWitness ==
  /\ err = "StopSoon: DCHECK_NE(GetThreadId(), CurrentId())"
  /\ \E r \in Runs : wtask[r] = "gti_read" /\ wcall[r] = "Stop"

\* C13: a worker whose loop is not TYPE_CUSTOM and was quit by
\* ThreadQuitHelper reaches the assertion after the loop with the
\* thread-local quit flag of its thread true (the assertion exists in a build
\* with DCHECKs).
QuitFlagSetAtAssert ==
  \A r \in Runs :
    (dcheckOn /\ wpc[r] = "w_assert" /\ loopType[wLoop[r]] # "TYPE_CUSTOM"
       /\ quitReq[wLoop[r]])
      => tls[WorkerId(r)]

\* What each step of ThreadMain that worker r has passed has left behind.
WorkerProgress(r) ==
  /\ initDone[r] <=> WPos(wpc[r]) > WPos("w_init")
  /\ cleanupDone[r] <=> WPos(wpc[r]) > WPos("w_cleanup")
  /\ WPos(wpc[r]) > WPos("w_bind") => loopState[r] \in {"bound", "destroyed"}
  /\ WPos(wpc[r]) > WPos("w_run") => quitReq[r]
  /\ wpc[r] = "done" => loopState[r] = "destroyed"

\* C14: every worker takes the steps of ThreadMain one after the other in
\* program order, none skipped or repeated, each with its effect, whenever
\* the stop is requested; a worker that has returned has run Init(), the
\* loop until it was quit, and CleanUp().
WorkerRunsEveryStepInOrder ==
  /\ [](\A r \in Runs : WorkerProgress(r))
  /\ [][\A r \in Runs :
          wpc'[r] # wpc[r] =>
            /\ WPos(wpc'[r]) = WPos(wpc[r]) + 1
            /\ wpc[r] = "w_setid" => id' = WorkerId(r)
            /\ wpc[r] = "w_sigid" => idEvent'
            /\ wpc[r] = "w_bind" => wLoop'[r] = r
            /\ wpc[r] = "w_running" => running'
            /\ wpc[r] = "w_signal" => startEvent'
            /\ wpc[r] = "w_notrunning" => ~running'
            /\ wpc[r] = "w_null" => loop' = NULL]_vars

\* C14 witness: a worker has returned from ThreadMain.
WorkerDoneWitness ==
  \E r \in Runs : wpc[r] = "done" /\ initDone[r] /\ cleanupDone[r]

\* C15: the scoped_ptr of StartWithOptions and the scoped_ptr of ThreadMain
\* never hold the same MessageLoop at the same time.
LoopNeverSharedOwnership ==
  \A r \in Runs : ~(ctlLoop = r /\ wLoop[r] = r)

\* C16: running_ is true only while a worker is between the end of Init()
\* and the start of CleanUp(); it is false when no worker exists; and it
\* changes only in a step of a worker that holds running_lock_.
RunningOnlyBetweenInitAndCleanUp ==
  /\ [](running =>
          \E r \in Runs :
            /\ wpc[r] \in {"w_signal", "w_run", "w_locknotrunning", "w_notrunning"}
            /\ initDone[r] /\ ~cleanupDone[r])
  /\ [](LiveWorkers = {} => ~running)
  /\ [][running' # running =>
          \E r \in Runs :
            /\ wpc[r] \in {"w_running", "w_notrunning"}
            /\ wpc'[r] # wpc[r]
            /\ runningLock = WorkerId(r)]_vars

\* C16 witness: running_ is true and its worker is inside the run loop.
RunningWitness ==
  /\ running
  /\ \E r \in Runs : wpc[r] = "w_run"

\* C17: message_loop_ is non-null exactly when thread_ is non-null.
LoopNonNullIffHandleLive == (loop # NULL) <=> (thread # NULL)

\* C17 amended: message_loop_ is non-null exactly from line 107 of the latest
\* StartWithOptions until its spawn fails or its worker executes line 278;
\* once the worker is spawned a non-null message_loop_ implies that thread_
\* is that worker's handle, and with no worker ever spawned message_loop_ is
\* non-null only inside StartWithOptions.
LoopNonNullUntilWorkerNulls ==
  /\ (loop # NULL) <=>
       /\ nStarts \in Runs
       /\ \/ pc["ctl"] \in {"start_resetev", "start_spawn"}
          \/ WPos(wpc[nStarts]) \in 1..WPos("w_null")
  /\ loop # NULL => loop = nStarts
  /\ (loop # NULL /\ pc["ctl"] \notin {"start_resetev", "start_spawn"})
       => thread = loop
  /\ ((\A r \in Runs : wpc[r] = "none") /\ op["ctl"] # "Start") => loop = NULL

\* C17 witness: the worker has returned and nulled message_loop_ while
\* thread_ still holds its unjoined handle.
LoopNullHandleHeldWitness ==
  /\ loop = NULL
  /\ thread \in Runs
  /\ wpc[thread] = "done"

\* C18: a thread that has found id_event_ signaled does not then read
\* kInvalidThreadId from id_.
IdValidOnceEventObserved ==
  \A t \in Callers : pc[t] = "gti_read" => id # kInvalidThreadId

\* C19: after StartWithOptions has returned true and before any StopSoon,
\* Stop or ~Thread call, IsRunning() returns true.
IsRunningTrueUntilStopAsked ==
  (ret["ctl"].op = "IsRunning" /\ lastStart = "ok" /\ ~stopAsked)
    => ret["ctl"].val = "true"

StartLabels == {"start_reset", "start_create", "start_resetev", "start_spawn",
                "start_release"}

\* C20: DCHECK(message_loop_) at the end of a successful StartWithOptions
\* never fails: message_loop_ is non-null when it is evaluated, also when
\* another thread calls StopSoon during the Start.
StartAssertionHolds ==
  /\ err # "StartWithOptions: DCHECK(message_loop_)"
  /\ pc["ctl"] = "start_release" => loop # NULL

\* C20 amended: message_loop_ is still the new loop at that DCHECK unless
\* ThreadQuitHelper was posted to the new loop during the Start, which only
\* a StopSoon running on another thread does.
StartAssertionHoldsWithoutRace ==
  /\ []((pc["ctl"] = "start_release" /\ queue[nStarts] = <<>> /\ ~quitReq[nStarts])
          => loop = nStarts)
  /\ [](err = "StartWithOptions: DCHECK(message_loop_)" => quitReq[nStarts])
  /\ [][(pc["ctl"] \in StartLabels /\ stopping' /\ ~stopping)
          => pc["obs"] = "ss_test"]_vars

\* C20 witness: in a build with DCHECKs a restart reached the assertion and
\* returned true.
StartAssertionWitness ==
  /\ dcheckOn
  /\ Returned("ctl", "Start", "true")
  /\ nStarts = 2

====
